---- MODULE Spec2Model ----
(***************************************************************************)
(* Event-stream reconciliation engine of the chat UI (web/src/lib/chat):   *)
(* normalizeText, extractText, buildChatMessages and computeStreaming.     *)
(*                                                                         *)
(* Encoding of JavaScript values                                           *)
(*   - a string that is displayed (text, content) is a sequence of atoms;  *)
(*     the atoms " ", "\t", "\r", "\n" are the whitespace characters, any  *)
(*     other atom is one or more non-whitespace characters.  Undef is the  *)
(*     value of a text field that is absent (typeof x !== 'string'), and   *)
(*     Num42 the value of one that holds a number.                         *)
(*   - an identifier-like string (type, role, message_id, tool_name, ...)  *)
(*     is a TLA+ string; "" stands for both '' and an absent field, which  *)
(*     the code never distinguishes (it only tests them for truthiness).   *)
(*   - a number field (seq, timestamp_ms) is an integer; NoNum is the      *)
(*     value of an absent field (typeof x !== 'number').                   *)
(***************************************************************************)
EXTENDS Integers, Sequences, FiniteSets, TLC

\* ------------------------------------------------------------------------
\* Bounds of the model
\* ------------------------------------------------------------------------
MaxEvents == 3

MaxSeq == 2

\* ------------------------------------------------------------------------
\* JavaScript values
\* ------------------------------------------------------------------------
Undef == <<"undefined">>

NoNum == -1

\* Number.MAX_SAFE_INTEGER (2^53 - 1); the model checker's integers are 32
\* bits wide, so the sentinel is the largest of them.  It only has to exceed
\* every seq and timestamp_ms of the model, as 2^53 - 1 exceeds the real ones.
MAX_SAFE_INTEGER == 2147483647

\* a text field holding the number 42: not a string, and truthy
Num42 == <<"typeof number">>

isString(x) == x \notin {Undef, Num42}

\* String(x), as in '' + x
toStr(x) == IF x = Num42 THEN <<"42">> ELSE x

isNumber(x) == x # NoNum

\* /\s/
isSpace(c) == c \in {" ", "\t", "\r", "\n"}

\* ------------------------------------------------------------------------
\* Generic helpers on sequences
\* ------------------------------------------------------------------------
RECURSIVE DropWhileSpace(_)
DropWhileSpace(s) ==
  IF s = <<>> THEN <<>>
  ELSE IF isSpace(Head(s)) THEN DropWhileSpace(Tail(s)) ELSE s

RECURSIVE DropTrailingSpace(_)
DropTrailingSpace(s) ==
  IF s = <<>> THEN <<>>
  ELSE IF isSpace(s[Len(s)]) THEN DropTrailingSpace(SubSeq(s, 1, Len(s) - 1))
       ELSE s

\* String.prototype.trim
trim(s) == DropTrailingSpace(DropWhileSpace(s))

\* s.replace(/\r\n/g, '\n')
RECURSIVE unifyNewlines(_)
unifyNewlines(s) ==
  IF Len(s) < 2 THEN s
  ELSE IF s[1] = "\r" /\ s[2] = "\n" THEN <<"\n">> \o unifyNewlines(Tail(Tail(s)))
       ELSE <<s[1]>> \o unifyNewlines(Tail(s))

\* s.split('\n'): the sequence of lines (always at least one, possibly empty)
RECURSIVE splitLines(_)
splitLines(s) ==
  IF s = <<>> THEN << <<>> >>
  ELSE LET rest == splitLines(Tail(s)) IN
       IF Head(s) = "\n" THEN << <<>> >> \o rest
       ELSE << <<Head(s)>> \o rest[1] >> \o Tail(rest)

\* line.replace(/\s+/g, ' ')
RECURSIVE collapseSpaces(_)
collapseSpaces(s) ==
  IF s = <<>> THEN <<>>
  ELSE IF isSpace(Head(s)) THEN <<" ">> \o collapseSpaces(DropWhileSpace(s))
       ELSE <<Head(s)>> \o collapseSpaces(Tail(s))

\* lines.join('\n')
RECURSIVE joinLines(_)
joinLines(ls) ==
  IF ls = <<>> THEN <<>>
  ELSE IF Len(ls) = 1 THEN ls[1]
       ELSE ls[1] \o <<"\n">> \o joinLines(Tail(ls))

\* s.replace(/\n{3,}/g, '\n\n')
RECURSIVE collapseBlankLines(_)
collapseBlankLines(s) ==
  IF s = <<>> THEN <<>>
  ELSE IF Len(s) >= 3 /\ s[1] = "\n" /\ s[2] = "\n" /\ s[3] = "\n"
       THEN collapseBlankLines(Tail(s))
       ELSE <<Head(s)>> \o collapseBlankLines(Tail(s))

\* mutant of normalizeLine: the line is not trimmed
normalizeLine_NoTrim(line) == collapseSpaces(line)

normalizeLine(line) == trim(collapseSpaces(line))

\* normalizeText: '' for a falsy argument, else CRLF -> LF, every line with
\* its whitespace runs collapsed and trimmed, 3+ newlines -> 2, then trimmed.
normalizeText(s) ==
  IF s = Undef \/ s = <<>> THEN <<>>
  ELSE LET unified == unifyNewlines(s)
           lines   == splitLines(unified)
           cleaned == collapseBlankLines(
                        joinLines([k \in 1..Len(lines) |-> normalizeLine(lines[k])]))
       IN  trim(cleaned)

\* s.replace is not a function: normalizeText raises a TypeError for an
\* argument that is truthy and has no replace method
throwsTypeError(s) == s = Num42

\* a falsy string ('' or absent) yields the alternative: s || alt
orElse(s, alt) == IF s = Undef \/ s = <<>> THEN alt ELSE s

\* ------------------------------------------------------------------------
\* Records: events, transcript items and realtime logs share one shape; a
\* field a record does not carry holds the absent value of its type.
\* ------------------------------------------------------------------------
\* an array-valued field: NoArr when the field is absent or not an array
NoArr == [isArray |-> FALSE, elems |-> <<>>]

Arr(elems) == [isArray |-> TRUE, elems |-> elems]

Blank ==
  [ type |-> "", seq |-> NoNum, timestamp_ms |-> NoNum, role |-> "",
    message_id |-> "", text |-> Undef, final |-> FALSE,
    optimistic |-> FALSE,          \* data.optimistic
    tool_name |-> "",
    data_tool_name |-> "",         \* data.tool_name
    agent_id |-> "", reason |-> "",
    content |-> Undef,             \* content, when it is not an array
    content_parts |-> NoArr,       \* content, when it is an array
    output |-> Undef, output_text |-> NoArr, input_text |-> NoArr,
    arguments |-> Undef,
    response_output_text |-> NoArr,   \* response.output_text
    response_text |-> Undef,          \* response.text
    items |-> NoArr,
    id |-> "", kind |-> "" ]

\* the id of a ChatMessage: prefix, number part, string part
MsgId(p, n, str) == [p |-> p, n |-> n, s |-> str]

ChatMessage(id, role, text, raw, kind, source) ==
  [ id |-> id, role |-> role, text |-> text, raw |-> raw, kind |-> kind,
    toolName |-> "", source |-> source ]

\* one entry of a content or items array
Part(type, text) == [type |-> type, text |-> text]

\* the texts of a sequence of array entries
textsOf(parts) == [k \in 1..Len(parts) |-> parts[k].text]

\* content.filter(textual type).map(text if a string, else '').filter(Boolean)
contentTextParts(content) ==
  textsOf(SelectSeq(content,
            LAMBDA c : /\ c.type \in {"output_text", "input_text", "text"}
                       /\ isString(c.text) /\ c.text # <<>>))

\* items.filter(type 'output_text' with a string text).map(text)
itemsTextParts(items) ==
  textsOf(SelectSeq(items,
            LAMBDA it : it.type = "output_text" /\ isString(it.text)))

\* extractText: the first field of a recognised shape decides.  firstShape
\* is the string that field gives ('' when no field is recognised); every
\* return of extractText is normalizeText of it.
firstShape(item) ==
  IF isString(item.content) THEN item.content
  ELSE IF item.content_parts.isArray
          /\ contentTextParts(item.content_parts.elems) # <<>>
    THEN joinLines(contentTextParts(item.content_parts.elems))
  ELSE IF isString(item.text) THEN item.text
  ELSE IF isString(item.output) THEN item.output
  ELSE IF item.output_text.isArray THEN joinLines(item.output_text.elems)
  ELSE IF item.input_text.isArray THEN joinLines(item.input_text.elems)
  ELSE IF isString(item.arguments) /\ item.arguments # <<>> THEN item.arguments
  ELSE IF item.response_output_text.isArray
    THEN joinLines(item.response_output_text.elems)
  ELSE IF isString(item.response_text) THEN item.response_text
  ELSE IF item.items.isArray /\ itemsTextParts(item.items.elems) # <<>>
    THEN joinLines(itemsTextParts(item.items.elems))
  ELSE <<>>

extractText(item) == normalizeText(firstShape(item))

\* ------------------------------------------------------------------------
\* Stable sort: seq asc if present, then timestamp_ms asc, then array order
\* ------------------------------------------------------------------------
\* mutant of seqKey: an absent seq counts as 0 (e.seq || 0) and sorts first
seqKey_AbsentAsZero(e) == IF isNumber(e.seq) THEN e.seq ELSE 0

seqKey(e) == IF isNumber(e.seq) THEN e.seq ELSE MAX_SAFE_INTEGER

tsKey(e) == IF isNumber(e.timestamp_ms) THEN e.timestamp_ms ELSE MAX_SAFE_INTEGER

\* mutant of compareEvents: the timestamp_ms key is left out
compareEvents_NoTimestamp(a, b) ==
  IF seqKey(a.e) # seqKey(b.e) THEN seqKey(a.e) - seqKey(b.e)
  ELSE a.i - b.i

\* mutant of compareEvents: the array-order tie-break is reversed
compareEvents_ReversedIndex(a, b) ==
  IF seqKey(a.e) # seqKey(b.e) THEN seqKey(a.e) - seqKey(b.e)
  ELSE IF tsKey(a.e) # tsKey(b.e) THEN tsKey(a.e) - tsKey(b.e)
  ELSE b.i - a.i

\* the comparator handed to withIndex.sort: negative when a sorts before b
compareEvents(a, b) ==
  IF seqKey(a.e) # seqKey(b.e) THEN seqKey(a.e) - seqKey(b.e)
  ELSE IF tsKey(a.e) # tsKey(b.e) THEN tsKey(a.e) - tsKey(b.e)
  ELSE a.i - b.i

\* events.map((e, i) => ({ e, i }))
withIndex(events) == [k \in 1..Len(events) |-> [e |-> events[k], i |-> k]]

RECURSIVE insertSorted(_, _)
insertSorted(w, ws) ==
  IF ws = <<>> THEN <<w>>
  ELSE IF compareEvents(w, Head(ws)) < 0 THEN <<w>> \o ws
       ELSE <<Head(ws)>> \o insertSorted(w, Tail(ws))

\* Array.prototype.sort with compareEvents
RECURSIVE sortWithIndex(_)
sortWithIndex(ws) ==
  IF ws = <<>> THEN <<>>
  ELSE insertSorted(ws[Len(ws)], sortWithIndex(SubSeq(ws, 1, Len(ws) - 1)))

\* eventsSorted, each event still paired with its index in the batch
sortedWithIndex(events) == sortWithIndex(withIndex(events))

eventsSorted(events) ==
  LET ws == sortedWithIndex(events) IN [k \in 1..Len(ws) |-> ws[k].e]

\* ------------------------------------------------------------------------
\* buildChatMessages, events branch
\* ------------------------------------------------------------------------
isRealMessage(e) == e.type = "message" /\ ~e.optimistic

\* mutant of realMessageIds: only real user messages are collected
realMessageIds_UserOnly(evs) ==
  { evs[k].message_id : k \in { j \in 1..Len(evs) :
      isRealMessage(evs[j]) /\ evs[j].role = "user" /\ evs[j].message_id # "" } }

\* realMessageIds: message_ids of the real (non-optimistic) message events
realMessageIds(evs) ==
  { evs[k].message_id : k \in { j \in 1..Len(evs) :
      isRealMessage(evs[j]) /\ evs[j].message_id # "" } }

\* mutant of realUserTexts: the texts are collected without normalization
realUserTexts_Raw(evs) ==
  { evs[k].text : k \in { j \in 1..Len(evs) :
      /\ isRealMessage(evs[j])
      /\ evs[j].role = "user"
      /\ isString(evs[j].text)
      /\ trim(evs[j].text) # <<>> } }

\* realUserTexts: normalized texts of the real user message events
realUserTexts(evs) ==
  { normalizeText(evs[k].text) : k \in { j \in 1..Len(evs) :
      /\ isRealMessage(evs[j])
      /\ evs[j].role = "user"
      /\ isString(evs[j].text)
      /\ trim(evs[j].text) # <<>> } }

\* partials: a Map, kept as the sequence of its entries in insertion order
partialsHas(partials, mid) == \E k \in 1..Len(partials) : partials[k].k = mid

\* partials.get(mid) || ''
partialsGet(partials, mid) ==
  IF partialsHas(partials, mid)
  THEN (CHOOSE en \in {partials[k] : k \in 1..Len(partials)} : en.k = mid).v
  ELSE <<>>

\* mutant of partialsSet: an entry is added even when the key is present
partialsSet_AlwaysAppend(partials, mid, v) ==
  Append(partials, [k |-> mid, v |-> v])

\* partials.set(mid, v)
partialsSet(partials, mid, v) ==
  IF partialsHas(partials, mid)
  THEN [k \in 1..Len(partials) |->
          IF partials[k].k = mid THEN [k |-> mid, v |-> v] ELSE partials[k]]
  ELSE Append(partials, [k |-> mid, v |-> v])

\* the state of the loop over eventsSorted; origin[k] is the batch index of
\* the event msgs[k] was pushed for (0 when it was pushed for none); threw
\* is set when an exception has left the function
LoopInit ==
  [ partials |-> <<>>, seenUserIds |-> {}, seenUserTextRecent |-> <<>>,
    msgs |-> <<>>, origin |-> <<>>, threw |-> FALSE ]

push(st, m, i) ==
  [st EXCEPT !.msgs = Append(@, m), !.origin = Append(@, i)]

\* mutant of onToken: the fragment replaces the accumulation
onToken_Overwrite(st, ev) ==
  [st EXCEPT !.partials =
     partialsSet(@, ev.message_id, toStr(orElse(ev.text, <<>>)))]

\* ev.type === 'token' && ev.message_id
onToken(st, ev) ==
  [st EXCEPT !.partials =
     partialsSet(@, ev.message_id,
                 partialsGet(@, ev.message_id) \o toStr(orElse(ev.text, <<>>)))]

handoffText(ev) ==
  <<"Handoff", " ", "to", " ", IF ev.agent_id = "" THEN "undefined" ELSE ev.agent_id>>
    \o (IF ev.reason # "" THEN <<" ", "-", " ", ev.reason>> ELSE <<>>)

\* mutant of onHandoff: a handoff without agent_id is passed over
onHandoff_SkipsAnonymous(st, ev, i, source) ==
  IF ev.agent_id = "" THEN st
  ELSE push(st, ChatMessage(MsgId("handoff", ev.seq, ""), "system", handoffText(ev),
                            ev, "system", source), i)

\* ev.type === 'handoff'
onHandoff(st, ev, i, source) ==
  push(st, ChatMessage(MsgId("handoff", ev.seq, ""), "system", handoffText(ev),
                       ev, "system", source), i)

\* mutant of skipOptimistic: every optimistic event is skipped
skipOptimistic_Always(ev, realIds, realTexts) == ev.optimistic

\* the optimistic placeholder is skipped: a real message has its message_id,
\* or a real user message has its normalized text
skipOptimistic(ev, realIds, realTexts) ==
  /\ ev.optimistic
  /\ \/ ev.message_id # "" /\ ev.message_id \in realIds
     \/ LET evText == IF isString(ev.text) THEN normalizeText(ev.text) ELSE <<>>
        IN  ev.role = "user" /\ evText # <<>> /\ evText \in realTexts

roleOf(ev) == IF ev.role = "" THEN "assistant" ELSE ev.role

kindOf(role) ==
  IF role = "user" THEN "user"
  ELSE IF role = "assistant" THEN "assistant" ELSE "system"

\* mutant of preferredOrFallback: the progressive text comes first for a
\* final message too
preferredOrFallback_IgnoresFinal(ev, partials) ==
  LET progressive == IF ev.message_id # "" THEN partialsGet(partials, ev.message_id)
                     ELSE <<>>
  IN  orElse(orElse(progressive, orElse(ev.text, <<>>)), extractText(ev))

\* Prefer final text; otherwise use progressive tokens or fallback extraction
preferredOrFallback(ev, partials) ==
  LET progressive == IF ev.message_id # "" THEN partialsGet(partials, ev.message_id)
                     ELSE <<>>
      preferred   == IF ev.final THEN orElse(ev.text, progressive)
                     ELSE orElse(progressive, orElse(ev.text, <<>>))
      fallback    == extractText(ev)
  IN  orElse(preferred, fallback)

\* seenUserTextRecent: a Map from normalized text to timestamp, kept as the
\* sequence of its entries
recentGet(recent, t) ==
  IF \E k \in 1..Len(recent) : recent[k].k = t
  THEN (CHOOSE en \in {recent[k] : k \in 1..Len(recent)} : en.k = t).v
  ELSE 0

recentSet(recent, t, ts) ==
  IF \E k \in 1..Len(recent) : recent[k].k = t
  THEN [k \in 1..Len(recent) |->
          IF recent[k].k = t THEN [k |-> t, v |-> ts] ELSE recent[k]]
  ELSE Append(recent, [k |-> t, v |-> ts])

Abs(x) == IF x < 0 THEN -x ELSE x

\* 7.5s window
RecencyWindowMs == 7500

\* the user message is skipped by the seen-sets: same message_id seen, or the
\* same text seen within the window and this one is the optimistic copy
skipSeenUser(st, ev, text) ==
  LET ts     == IF isNumber(ev.timestamp_ms) THEN ev.timestamp_ms ELSE 0
      lastTs == recentGet(st.seenUserTextRecent, text)
  IN  \/ ev.message_id # "" /\ ev.message_id \in st.seenUserIds
      \/ /\ text # <<>> /\ lastTs # 0 /\ Abs(ts - lastTs) < RecencyWindowMs
         /\ ev.optimistic

\* mutant of markSeenUser: the message_id is not recorded
markSeenUser_NoId(st, ev, text) ==
  LET ts == IF isNumber(ev.timestamp_ms) THEN ev.timestamp_ms ELSE 0
  IN  [st EXCEPT
         !.seenUserTextRecent =
            IF text # <<>> /\ ts # 0 THEN recentSet(@, text, ts) ELSE @]

markSeenUser(st, ev, text) ==
  LET ts == IF isNumber(ev.timestamp_ms) THEN ev.timestamp_ms ELSE 0
  IN  [st EXCEPT
         !.seenUserIds = IF ev.message_id # "" THEN @ \cup {ev.message_id} ELSE @,
         !.seenUserTextRecent =
            IF text # <<>> /\ ts # 0 THEN recentSet(@, text, ts) ELSE @]

\* mutant of pushMessage: a message with empty text is pushed too
pushMessage_NoEmptyGuard(st, ev, i, source, role, kind, text) ==
  IF kind = "user" /\ skipSeenUser(st, ev, text) THEN st
  ELSE push(IF kind = "user" THEN markSeenUser(st, ev, text) ELSE st,
            ChatMessage(MsgId("e", ev.seq, ""), role, text, ev, kind, source), i)

\* the message branch once the text is resolved: the dedupe of user
\* messages, the empty guard and the push
pushMessage(st, ev, i, source, role, kind, text) ==
  IF kind = "user" /\ skipSeenUser(st, ev, text) THEN st
  ELSE IF text = <<>>
       THEN (IF kind = "user" THEN markSeenUser(st, ev, text) ELSE st)
       ELSE push(IF kind = "user" THEN markSeenUser(st, ev, text) ELSE st,
                 ChatMessage(MsgId("e", ev.seq, ""), role, text, ev, kind, source), i)

\* text = normalizeText(preferred || fallback), arg being preferred || fallback
normalizeAndPush(st, ev, i, source, arg) ==
  IF throwsTypeError(arg) THEN [st EXCEPT !.threw = TRUE]
  ELSE pushMessage(st, ev, i, source, roleOf(ev), kindOf(roleOf(ev)),
                   normalizeText(arg))

\* ev.type === 'message'
onMessage(st, ev, i, source, realIds, realTexts) ==
  IF skipOptimistic(ev, realIds, realTexts) THEN st
  ELSE normalizeAndPush(st, ev, i, source, preferredOrFallback(ev, st.partials))

\* one iteration of: for (const ev of eventsSorted)
loopStep(st, w, source, realIds, realTexts) ==
  IF w.e.type = "token" /\ w.e.message_id # "" THEN onToken(st, w.e)
  ELSE IF w.e.type = "handoff" THEN onHandoff(st, w.e, w.i, source)
  ELSE IF w.e.type = "message"
       THEN onMessage(st, w.e, w.i, source, realIds, realTexts)
  ELSE st

RECURSIVE runLoop(_, _, _, _, _)
runLoop(st, ws, source, realIds, realTexts) ==
  IF ws = <<>> \/ st.threw THEN st
  ELSE runLoop(loopStep(st, Head(ws), source, realIds, realTexts), Tail(ws),
               source, realIds, realTexts)

\* eventsSorted.some(e => e.type === 'message' && e.message_id === mid && e.final === true)
hasFinal(evs, mid) ==
  \E k \in 1..Len(evs) :
     evs[k].type = "message" /\ evs[k].message_id = mid /\ evs[k].final

streamingEntry(mid, text, source) ==
  ChatMessage(MsgId("tok", NoNum, mid), "assistant", text,
              [Blank EXCEPT !.message_id = mid, !.type = "token"],
              "assistant", source)

\* mutant of partialStep: an empty accumulation is pushed too
partialStep_NoTextGuard(st, en, evs, source) ==
  IF ~hasFinal(evs, en.k)
  THEN push(st, streamingEntry(en.k, en.v, source), 0)
  ELSE st

\* one iteration of: for (const [mid, text] of partials.entries())
partialStep(st, en, evs, source) ==
  IF ~hasFinal(evs, en.k) /\ en.v # <<>>
  THEN push(st, streamingEntry(en.k, en.v, source), 0)
  ELSE st

RECURSIVE runPartials(_, _, _, _)
runPartials(st, entries, evs, source) ==
  IF entries = <<>> \/ st.threw THEN st
  ELSE runPartials(partialStep(st, Head(entries), evs, source), Tail(entries),
                   evs, source)

\* the events branch of buildChatMessages (events.length > 0)
fromEvents(events, source) ==
  LET ws  == sortedWithIndex(events)
      evs == [k \in 1..Len(ws) |-> ws[k].e]
      st  == runLoop(LoopInit, ws, source, realMessageIds(evs), realUserTexts(evs))
  IN  runPartials(st, st.partials, evs, source)

\* ------------------------------------------------------------------------
\* buildChatMessages, transcript branch and realtime logs
\* ------------------------------------------------------------------------
transcriptKind(role) ==
  IF role = "user" THEN "user"
  ELSE IF role = "assistant" THEN "assistant"
  ELSE IF role = "tool" THEN "tool" ELSE "system"

\* one iteration of: for (const it of transcript)
transcriptStep(st, it, source) ==
  LET t    == IF it.type # "" THEN it.type ELSE it.role
      r1   == IF it.role # "" THEN it.role
              ELSE IF t = "message" THEN "assistant" ELSE t
      role == IF r1 # "" THEN r1 ELSE "item"
      id   == IF it.id # "" THEN MsgId("", NoNum, it.id)
              ELSE MsgId("t", Len(st.msgs), "")
  IN  IF t \in {"function_call", "function_call_output"} THEN st
      ELSE push(st, ChatMessage(id, role, extractText(it), it,
                                transcriptKind(role), source), 0)

RECURSIVE fromTranscript(_, _, _)
fromTranscript(st, transcript, source) ==
  IF transcript = <<>> THEN st
  ELSE fromTranscript(transcriptStep(st, Head(transcript), source),
                      Tail(transcript), source)

\* mutant of realtimeStep: a log whose text a user message already carries
\* is passed over
realtimeStep_DedupeText(st, l) ==
  IF /\ l.kind = "text" /\ l.role # "" /\ isString(l.content) /\ l.content # <<>>
     /\ ~\E k \in 1..Len(st.msgs) : st.msgs[k].text = l.content
  THEN push(st, ChatMessage(MsgId("rt", NoNum, l.id), l.role, l.content, l,
                            IF l.role = "user" THEN "user" ELSE "assistant",
                            "realtime"), 0)
  ELSE st

\* one iteration of: realtimeLogs.forEach
realtimeStep(st, l) ==
  IF l.kind = "text" /\ l.role # "" /\ isString(l.content) /\ l.content # <<>>
  THEN push(st, ChatMessage(MsgId("rt", NoNum, l.id), l.role, l.content, l,
                            IF l.role = "user" THEN "user" ELSE "assistant",
                            "realtime"), 0)
  ELSE st

RECURSIVE fromRealtime(_, _)
fromRealtime(st, logs) ==
  IF logs = <<>> \/ st.threw THEN st
  ELSE fromRealtime(realtimeStep(st, Head(logs)), Tail(logs))

\* mutant of assemble: the transcript items follow the events
assemble_TranscriptToo(events, transcript, realtimeLogs, source) ==
  fromRealtime(fromTranscript(IF Len(events) > 0 THEN fromEvents(events, source)
                              ELSE LoopInit,
                              transcript, source),
               realtimeLogs)

\* the whole of buildChatMessages, with the origin of every message
assemble(events, transcript, realtimeLogs, source) ==
  LET st == IF Len(events) > 0 THEN fromEvents(events, source)
            ELSE fromTranscript(LoopInit, transcript, source)
  IN  fromRealtime(st, realtimeLogs)

buildChatMessages(events, transcript, realtimeLogs, source) ==
  assemble(events, transcript, realtimeLogs, source).msgs

\* ------------------------------------------------------------------------
\* computeStreaming
\* ------------------------------------------------------------------------
tokenIds(events) ==
  { events[k].message_id :
      k \in { j \in 1..Len(events) :
                events[j].type = "token" /\ events[j].message_id # "" } }

\* mutant of finals: a message event counts whether final or not
finals_AnyMessage(events) ==
  { events[k].message_id :
      k \in { j \in 1..Len(events) :
                events[j].type = "message" /\ events[j].message_id # "" } }

finals(events) ==
  { events[k].message_id :
      k \in { j \in 1..Len(events) :
                /\ events[j].type = "message" /\ events[j].message_id # ""
                /\ events[j].final } }

computeStreaming(events) ==
  \E mid \in tokenIds(events) : mid \notin finals(events)

\* ------------------------------------------------------------------------
\* The chat panel: its props (events, transcript, realtimeLogs) and the
\* memoised chatMessages computed from them on render.
\* ------------------------------------------------------------------------
\* The page: loading and error of sendMessage, the request it awaits
\* (inflight) and the events the server has recorded and the page has not
\* fetched yet (server).  calls counts the renders of the panel.
\* guardrailResults: the calls of the moderation guardrail and what each
\* settled with.
\* The agents of the page: the selected scenario, its agent list (the ids),
\* the active agent and the position of the scenario effect (scenarioPc).
VARIABLES events, transcript, realtimeLogs, chatMessages, streaming, origin, pc,
          calls, loading, error, inflight, server,
          scenarioId, agents, activeAgentId, scenarioPc,
          guardrailResults

vars == <<events, transcript, realtimeLogs, chatMessages, streaming, origin, pc,
          calls, loading, error, inflight, server,
          scenarioId, agents, activeAgentId, scenarioPc, guardrailResults>>

agentVars == <<scenarioId, agents, activeAgentId, scenarioPc>>

sendVars == <<loading, error, inflight, server>>

\* nothing rendered yet
Unrendered ==
  /\ chatMessages = <<>>
  /\ streaming = FALSE
  /\ origin = <<>>
  /\ pc = "mounted"
  /\ calls = 0

\* useState of the agent scaffolding; the scenario effect runs on mount
InitialAgents ==
  /\ scenarioId = "default"
  /\ agents = <<"general", "sales", "support">>
  /\ activeAgentId = "general"
  /\ scenarioPc = "fetching"

\* no message is being sent
Idle ==
  /\ loading = FALSE
  /\ error = ""
  /\ inflight = ""
  /\ server = <<>>
  /\ InitialAgents
  /\ guardrailResults = <<>>

\* mutant of commit: the events prop is left sorted in place
commit_SortsInPlace(st) ==
  IF st.threw
  THEN /\ pc' = "crashed"
       /\ UNCHANGED <<events, chatMessages, streaming, origin, calls>>
  ELSE /\ chatMessages' = st.msgs
       /\ origin' = st.origin
       /\ streaming' = computeStreaming(events)
       /\ events' = eventsSorted(events)
       /\ calls' = calls + 1
       /\ pc' = "rendered"

\* the end of a render: the memoised values are those of the call, the
\* events prop is as it was; an exception leaves the render without them
commit(st) ==
  IF st.threw
  THEN /\ pc' = "crashed"
       /\ UNCHANGED <<events, chatMessages, streaming, origin, calls>>
  ELSE /\ chatMessages' = st.msgs
       /\ origin' = st.origin
       /\ streaming' = computeStreaming(events)
       /\ events' = events
       /\ calls' = calls + 1
       /\ pc' = "rendered"

\* ChatPanel: chatMessages = useMemo(() => buildChatMessages(...)) and
\* streaming = useMemo(() => computeStreaming(events))
Render ==
  /\ pc = "mounted"
  /\ commit(assemble(events, transcript, realtimeLogs, "sdk"))
  /\ UNCHANGED <<transcript, realtimeLogs>>
  /\ UNCHANGED sendVars
  /\ UNCHANGED agentVars
  /\ UNCHANGED guardrailResults

Next == Render

\* ------------------------------------------------------------------------
\* Inputs
\* ------------------------------------------------------------------------
Token(mid, text, seq, ts) ==
  [Blank EXCEPT !.type = "token", !.message_id = mid, !.text = text,
                !.seq = seq, !.timestamp_ms = ts]

Message(role, mid, text, final, optimistic, seq, ts) ==
  [Blank EXCEPT !.type = "message", !.role = role, !.message_id = mid,
                !.text = text, !.final = final, !.optimistic = optimistic,
                !.seq = seq, !.timestamp_ms = ts]

Handoff(agent, reason, seq, ts) ==
  [Blank EXCEPT !.type = "handoff", !.agent_id = agent, !.reason = reason,
                !.seq = seq, !.timestamp_ms = ts]

ToolEvent(type, name, dataName, text, seq, ts) ==
  [Blank EXCEPT !.type = type, !.tool_name = name, !.data_tool_name = dataName,
                !.text = text, !.seq = seq, !.timestamp_ms = ts]

RealtimeLog(id, role, content) ==
  [Blank EXCEPT !.kind = "text", !.id = id, !.role = role, !.content = content]

\* every batch of 1..MaxEvents events of the pool
Batches(pool) == UNION { [1..n -> pool] : n \in 1..MaxEvents }

Seqs == {NoNum} \cup 1..MaxSeq

T1 == 1000

RealtimeInputs == { <<>>, <<RealtimeLog("r1", "user", <<"Hi">>)>> }

\* events of every type the backend emits, with seq and timestamp_ms
\* present, absent and tied
EventPool ==
  { Message("assistant", "", <<"a">>, TRUE, FALSE, sq, ts) :
       sq \in Seqs, ts \in {NoNum, T1} }
  \cup { Token("m1", <<"b">>, sq, NoNum) : sq \in {NoNum, 1} }
  \cup { Handoff("billing", "", 1, NoNum),
         ToolEvent("tool_call", "", "WebSearchTool", Undef, 1, T1),
         ToolEvent("tool_result", "summarizer_agent_tool", "summarizer_agent_tool",
                   <<"Hello">>, 2, T1),
         ToolEvent("tool_call", "", "", Undef, NoNum, NoNum) }

InitWith(pool) ==
  /\ events \in Batches(pool)
  /\ transcript = <<>>
  /\ realtimeLogs \in RealtimeInputs
  /\ Unrendered
  /\ Idle

Init == InitWith(EventPool)

Spec == Init /\ [][Next]_vars

\* streamed token fragments of one identity, in and out of stable order,
\* with and without a terminal or a non-final message event of the identity
StreamPool ==
  { Token("m1", <<"Hel">>, sq, NoNum) : sq \in Seqs }
  \cup { Token("m1", <<"lo">>, sq, NoNum) : sq \in Seqs }
  \cup { Message("assistant", "m1", Undef, FALSE, FALSE, sq, NoNum) : sq \in 1..MaxSeq }
  \cup { Token("m1", <<>>, 1, NoNum),
         Token("m2", <<"x">>, 1, T1),
         Message("assistant", "m1", <<"Hello">>, TRUE, FALSE, 2, NoNum),
         Message("assistant", "m2", <<"Hi">>, FALSE, FALSE, 2, T1) }

InitStream == InitWith(StreamPool)

SpecStream == InitStream /\ [][Next]_vars

\* sendMessage: the optimistic placeholder it adds to the events
Optimistic(clientMessageId, input, seq, nowMs) ==
  Message("user", clientMessageId, input, TRUE, TRUE, seq, nowMs)

\* optimistic placeholders and the server's events around them: the echo of
\* the user message under the server's id, in either order and with extra
\* whitespace, real messages under the client's id, and a second submission
\* of the same text two recency windows later
UserPool ==
  { Optimistic("c1", <<"Hi">>, sq, T1) : sq \in 1..MaxSeq }
  \cup { Message("user", "s1", <<"Hi">>, TRUE, FALSE, sq, T1) : sq \in 1..MaxSeq }
  \cup { Message("user", "s1", <<" ", "Hi", "\n">>, TRUE, FALSE, 2, T1),
         Message("user", "s1", <<"Hi">>, FALSE, FALSE, 2, T1),
         Message("user", "s2", <<"Hi">>, TRUE, FALSE, 2, T1 + 2 * RecencyWindowMs),
         Message("user", "c1", <<"Yo">>, TRUE, FALSE, 1, T1),
         Message("assistant", "c1", <<"Ok">>, TRUE, FALSE, 1, T1),
         Message("assistant", "a1", <<"Ok">>, TRUE, FALSE, NoNum, NoNum),
         [Message("assistant", "c1", <<"Hi">>, TRUE, TRUE, 2, T1) EXCEPT !.role = ""],
         Optimistic("c2", <<"Yo">>, 1, T1),
         Token("s1", <<"x">>, 1, T1) }

InitUser == InitWith(UserPool)

SpecUser == InitUser /\ [][Next]_vars

\* echoes of one user submission: the same text under two server ids, just
\* inside and just outside the recency window, and a placeholder
EchoPool ==
  { Message("user", "s1", <<"Hi">>, TRUE, FALSE, sq, T1) : sq \in 1..MaxSeq }
  \cup { Message("user", "s2", <<"Hi">>, TRUE, FALSE, 2, T1 + RecencyWindowMs - 1),
         Message("user", "s2", <<"Hi", " ">>, TRUE, FALSE, 2, T1 + RecencyWindowMs),
         Message("user", "s3", <<"Yo">>, TRUE, FALSE, 1, T1),
         Optimistic("c1", <<"Hi">>, 1, T1),
         Message("assistant", "a1", <<"Ok">>, TRUE, FALSE, NoNum, NoNum) }

InitEcho == InitWith(EchoPool)

SpecEcho == InitEcho /\ [][Next]_vars

\* ------------------------------------------------------------------------
\* Sparse inputs: transcript items of every shape extractText recognises,
\* events without text, realtime logs without content
\* ------------------------------------------------------------------------
MaxItems == 2

Item(role, id) == [Blank EXCEPT !.role = role, !.id = id]

ItemPool ==
  { [Item("assistant", "i1") EXCEPT !.content = <<"Hi">>],
    [Item("assistant", "i2") EXCEPT !.content = <<>>, !.text = <<"Yo">>],
    [Item("assistant", "") EXCEPT
        !.content_parts = Arr(<< Part("output_text", <<"Hi">>),
                                 Part("image", <<"x">>),
                                 Part("text", <<"Yo">>) >>)],
    [Item("assistant", "") EXCEPT
        !.content_parts = Arr(<< Part("image", <<"x">>) >>), !.text = <<"Yo">>],
    [Item("user", "") EXCEPT !.text = <<" ">>, !.output = <<"Hi">>],
    [Item("tool", "") EXCEPT !.output = <<"Hi">>],
    [Item("assistant", "") EXCEPT
        !.output_text = Arr(<<>>), !.input_text = Arr(<< <<"Hi">> >>)],
    [Item("assistant", "") EXCEPT !.output_text = Arr(<< <<"Hi">>, <<"Yo">> >>)],
    [Item("user", "") EXCEPT !.input_text = Arr(<< <<"Hi">> >>)],
    [Item("assistant", "") EXCEPT !.arguments = <<>>, !.response_text = <<"Hi">>],
    [Item("", "") EXCEPT !.type = "message", !.arguments = <<"{}">>],
    [Item("assistant", "") EXCEPT
        !.response_output_text = Arr(<< <<"Hi">> >>), !.response_text = <<"Yo">>],
    [Item("assistant", "") EXCEPT
        !.response_text = <<>>,
        !.items = Arr(<< Part("output_text", <<"Hi">>) >>)],
    [Item("assistant", "") EXCEPT
        !.items = Arr(<< Part("output_text", <<"Hi">>), Part("x", <<"Yo">>),
                         Part("output_text", <<"Ok">>) >>)],
    Item("assistant", "i3"),
    Item("", ""),
    [Item("", "") EXCEPT !.type = "function_call", !.arguments = <<"{}">>] }

Transcripts(pool) == UNION { [1..n -> pool] : n \in 0..MaxItems }

SparsePool ==
  { Message("assistant", "m1", Undef, TRUE, FALSE, 2, NoNum),
    Message("assistant", "m1", <<>>, FALSE, FALSE, 1, NoNum),
    Message("assistant", "m2", <<" ">>, TRUE, FALSE, NoNum, NoNum),
    Message("assistant", "", <<"Ok">>, TRUE, FALSE, NoNum, NoNum),
    [Message("assistant", "m3", Undef, TRUE, FALSE, 1, NoNum)
        EXCEPT !.content = <<"Hi">>],
    Message("user", "u1", <<>>, TRUE, FALSE, 1, NoNum),
    Token("m1", <<>>, 1, NoNum),
    Token("m1", <<"b">>, 1, NoNum),
    Token("m4", Undef, NoNum, NoNum) }

SparseRealtime ==
  { <<>>,
    << RealtimeLog("r1", "user", <<"Hi">>), RealtimeLog("r2", "assistant", <<>>) >>,
    << RealtimeLog("r3", "", <<"Hi">>), RealtimeLog("r4", "assistant", Undef) >> }

InitFallback ==
  /\ \/ events = <<>> /\ transcript \in Transcripts(ItemPool)
     \/ /\ events \in Batches(SparsePool)
        /\ transcript \in { <<>>, << [Item("assistant", "i1") EXCEPT !.content = <<"Hi">>] >> }
  /\ realtimeLogs \in SparseRealtime
  /\ Unrendered
  /\ Idle

SpecFallback == InitFallback /\ [][Next]_vars

\* ------------------------------------------------------------------------
\* Texts: one transcript item whose content is any string of up to MaxLen
\* characters, or the sample text "a   b\r\n\r\n\r\nc"
\* ------------------------------------------------------------------------
MaxLen == 5

Chars == {"a", " ", "\t", "\r", "\n"}

Strings == UNION { [1..n -> Chars] : n \in 0..MaxLen }

SampleText ==
  <<"a", " ", " ", " ", "b", "\r", "\n", "\r", "\n", "\r", "\n", "c">>

InitText ==
  /\ events = <<>>
  /\ \E str \in Strings \cup {SampleText} :
        transcript = << [Item("assistant", "i1") EXCEPT !.content = str] >>
  /\ realtimeLogs = <<>>
  /\ Unrendered
  /\ Idle

SpecText == InitText /\ [][Next]_vars

\* ------------------------------------------------------------------------
\* Malformed events: fields missing, text or content of type number
\* ------------------------------------------------------------------------
MalformedPool ==
  { Message("", "", Undef, FALSE, FALSE, NoNum, NoNum),
    Message("assistant", "m1", Num42, TRUE, FALSE, NoNum, NoNum),
    Message("assistant", "m1", Num42, FALSE, FALSE, 2, NoNum),
    [Message("assistant", "", Undef, TRUE, FALSE, 1, NoNum) EXCEPT !.content = Num42],
    Optimistic("", Num42, NoNum, NoNum),
    Message("user", "u1", <<"Hi">>, TRUE, FALSE, 1, T1),
    Token("m1", Num42, 1, NoNum),
    Token("", <<"b">>, NoNum, NoNum),
    Handoff("", "", NoNum, NoNum) }

InitMalformed == InitWith(MalformedPool)

SpecMalformed == InitMalformed /\ [][Next]_vars

\* ------------------------------------------------------------------------
\* The panel rendered again and again, with new props each time
\* ------------------------------------------------------------------------
MaxCalls == 2

RerenderPool ==
  { Message("user", "u1", <<"Hi">>, TRUE, FALSE, 2, T1),
    Message("assistant", "m1", <<"Ok">>, FALSE, FALSE, 1, T1),
    Token("m1", <<"b">>, 1, NoNum) }

RerenderProps ==
  ({<<>>} \cup Batches(RerenderPool))
     \X { <<>>, << [Item("assistant", "i1") EXCEPT !.content = <<"Hi">>] >> }

\* the parent passes new props: React renders the panel again
Update ==
  /\ pc = "rendered"
  /\ calls < MaxCalls
  /\ \E props \in RerenderProps :
        /\ events' = props[1]
        /\ transcript' = props[2]
  /\ pc' = "mounted"
  /\ UNCHANGED <<realtimeLogs, chatMessages, streaming, origin, calls>>
  /\ UNCHANGED sendVars
  /\ UNCHANGED agentVars
  /\ UNCHANGED guardrailResults

NextRerender == Render \/ Update

InitRerender ==
  /\ \E props \in RerenderProps :
        /\ events = props[1]
        /\ transcript = props[2]
  /\ realtimeLogs \in RealtimeInputs
  /\ Unrendered
  /\ Idle

SpecRerender == InitRerender /\ [][NextRerender]_vars

\* ------------------------------------------------------------------------
\* sendMessage: the events working set of the page, the request and the
\* server.  The server keeps the user message under the client_message_id
\* of the request; the page fetches the server's events by refresh().
\* ------------------------------------------------------------------------
Inputs == { <<"Hi">>, <<"Yo">> }

ClientIds == { "c1", "c2" }

\* e.seq || 0
seqOrZero(e) == IF isNumber(e.seq) THEN e.seq ELSE 0

\* prev.reduce((m, e) => Math.max(m, e.seq || 0), 0)
RECURSIVE maxSeqOf(_)
maxSeqOf(evs) ==
  IF evs = <<>> THEN 0
  ELSE LET m == maxSeqOf(Tail(evs)) IN
       IF seqOrZero(Head(evs)) > m THEN seqOrZero(Head(evs)) ELSE m

\* merged.sort((a, b) => (a.seq || 0) - (b.seq || 0)), a stable sort
RECURSIVE sortBySeq(_)
sortBySeq(evs) ==
  IF evs = <<>> THEN <<>>
  ELSE LET last == evs[Len(evs)]
           init == sortBySeq(SubSeq(evs, 1, Len(evs) - 1))
           n    == Cardinality({ k \in 1..Len(init) :
                                   seqOrZero(init[k]) <= seqOrZero(last) })
       IN  SubSeq(init, 1, n) \o <<last>> \o SubSeq(init, n + 1, Len(init))

\* the server has recorded the user message of the request
Recorded(id) ==
  \E e \in { events[k] : k \in 1..Len(events) } \cup { server[k] : k \in 1..Len(server) } :
     e.type = "message" /\ e.role = "user" /\ ~e.optimistic /\ e.message_id = id

\* the placeholder of the request
isPlaceholderOf(e, clientMessageId) ==
  e.type = "message" /\ e.message_id = clientMessageId /\ e.optimistic

\* mutant of SendStart: no test of loading
SendStart_NoLoadingGuard ==
  /\ Len(events) + Len(server) < MaxEvents
  /\ \E input \in Inputs, clientMessageId \in ClientIds :
        /\ \A k \in 1..Len(events) : events[k].message_id # clientMessageId
        /\ \A k \in 1..Len(server) : server[k].message_id # clientMessageId
        /\ events' = sortBySeq(Append(events,
                        Optimistic(clientMessageId, input, maxSeqOf(events) + 1, T1)))
        /\ inflight' = clientMessageId
  /\ loading' = TRUE
  /\ error' = ""
  /\ UNCHANGED <<transcript, realtimeLogs, chatMessages, streaming, origin, pc,
                 calls, server>>
  /\ UNCHANGED agentVars
  /\ UNCHANGED guardrailResults

\* sendMessage, up to: await fetchPromise
SendStart ==
  /\ ~loading
  /\ Len(events) + Len(server) < MaxEvents
  /\ \E input \in Inputs, clientMessageId \in ClientIds :
        /\ \A k \in 1..Len(events) : events[k].message_id # clientMessageId
        /\ \A k \in 1..Len(server) : server[k].message_id # clientMessageId
        /\ events' = sortBySeq(Append(events,
                        Optimistic(clientMessageId, input, maxSeqOf(events) + 1, T1)))
        /\ inflight' = clientMessageId
  /\ loading' = TRUE
  /\ error' = ""
  /\ UNCHANGED <<transcript, realtimeLogs, chatMessages, streaming, origin, pc,
                 calls, server>>
  /\ UNCHANGED agentVars
  /\ UNCHANGED guardrailResults

\* sendMessage while loading: `if (loading) return`, which the Send button
\* (disabled, !loading) and Ctrl+Enter (!loading) test before it; setLoading(true)
\* runs in the handler before the first await, so React has rendered it
\* before the next click or key event is handled
SendIgnored ==
  /\ loading
  /\ UNCHANGED vars

\* the server receives the request and records the user message
ServerRecord ==
  /\ inflight # ""
  /\ ~Recorded(inflight)
  /\ Len(events) + Len(server) < MaxEvents + 1
  /\ \E k \in 1..Len(events) :
        /\ isPlaceholderOf(events[k], inflight)
        /\ server' = Append(server,
                       Message("user", inflight, events[k].text, TRUE, FALSE,
                               maxSeqOf(events \o server) + 1, T1))
  /\ UNCHANGED <<events, transcript, realtimeLogs, chatMessages, streaming, origin,
                 pc, calls, loading, error, inflight>>
  /\ UNCHANGED agentVars
  /\ UNCHANGED guardrailResults

\* refresh() of useEvents: the events of the server not fetched yet join
\* the working set
Refresh ==
  /\ server # <<>>
  /\ events' = sortBySeq(events \o server)
  /\ server' = <<>>
  /\ UNCHANGED <<transcript, realtimeLogs, chatMessages, streaming, origin, pc,
                 calls, loading, error, inflight>>
  /\ UNCHANGED agentVars
  /\ UNCHANGED guardrailResults

\* mutant of SendOk: the turn is followed by an orchestrate call that makes
\* the agent of the latest handoff event the active one
SendOk_Orchestrates ==
  /\ inflight # ""
  /\ Recorded(inflight)
  /\ events' = SelectSeq(events, LAMBDA e : ~isPlaceholderOf(e, inflight))
  /\ loading' = FALSE
  /\ inflight' = ""
  /\ activeAgentId' =
        IF \E k \in 1..Len(events) : events[k].type = "handoff"
        THEN events[CHOOSE k \in 1..Len(events) : events[k].type = "handoff"].agent_id
        ELSE activeAgentId
  /\ UNCHANGED <<transcript, realtimeLogs, chatMessages, streaming, origin, pc,
                 calls, error, server>>
  /\ UNCHANGED <<scenarioId, agents, scenarioPc>>
  /\ UNCHANGED guardrailResults

\* sendMessage after the await, r.ok: the placeholder of the request is
\* filtered out; finally setLoading(false)
SendOk ==
  /\ inflight # ""
  /\ Recorded(inflight)
  /\ events' = SelectSeq(events, LAMBDA e : ~isPlaceholderOf(e, inflight))
  /\ loading' = FALSE
  /\ inflight' = ""
  /\ UNCHANGED <<transcript, realtimeLogs, chatMessages, streaming, origin, pc,
                 calls, error, server>>
  /\ UNCHANGED agentVars
  /\ UNCHANGED guardrailResults

\* sendMessage after the await, the request failed (HTTP error, network
\* failure, abort after 12 s): catch sets the error; finally setLoading(false)
SendFail ==
  /\ inflight # ""
  /\ \E outcome \in { "http error", "network failure", "Request timed out" } :
        error' = outcome
  /\ loading' = FALSE
  /\ inflight' = ""
  /\ UNCHANGED <<events, transcript, realtimeLogs, chatMessages, streaming, origin,
                 pc, calls, server>>
  /\ UNCHANGED agentVars
  /\ UNCHANGED guardrailResults

NextSend ==
  SendStart \/ SendIgnored \/ ServerRecord \/ Refresh \/ SendOk \/ SendFail

InitSend ==
  /\ events \in { <<>>,
                  << Message("assistant", "a1", <<"Ok">>, TRUE, FALSE, 1, T1) >>,
                  << Message("user", "s1", <<"Hi">>, TRUE, FALSE, 1, T1) >> }
  /\ transcript = <<>>
  /\ realtimeLogs = <<>>
  /\ Unrendered
  /\ Idle

SpecSend == InitSend /\ [][NextSend]_vars

\* ------------------------------------------------------------------------
\* Handoffs with and without agent_id and reason, among messages
\* ------------------------------------------------------------------------
HandoffPool ==
  { Handoff("sales", "upsell", sq, T1) : sq \in Seqs }
  \cup { Handoff("billing", "", 1, NoNum),
         Handoff("", "", NoNum, NoNum),
         Handoff("", "busy", 1, T1),
         Message("system", "", <<"Handoff", " ", "to", " ", "billing">>, TRUE, FALSE,
                 1, NoNum),
         Message("user", "u1", <<"Hi">>, TRUE, FALSE, 2, T1),
         Token("m1", <<"b">>, 1, NoNum) }

InitHandoff == InitWith(HandoffPool)

SpecHandoff == InitHandoff /\ [][Next]_vars

\* ------------------------------------------------------------------------
\* Realtime logs next to events and transcript items of the same text
\* ------------------------------------------------------------------------
MaxLogs == 2

LogPool ==
  { RealtimeLog("r1", "user", <<"Hi">>),
    RealtimeLog("r2", "assistant", <<"Hi">>),
    RealtimeLog("r3", "assistant", <<" ", "Ok">>),
    RealtimeLog("r4", "", <<"Hi">>),
    RealtimeLog("r5", "user", <<>>),
    [RealtimeLog("r6", "user", <<"Hi">>) EXCEPT !.kind = "audio"] }

Logs == UNION { [1..n -> LogPool] : n \in 0..MaxLogs }

RealtimePool ==
  { Message("user", "s1", <<"Hi">>, TRUE, FALSE, 1, T1),
    Optimistic("c1", <<"Hi">>, 2, T1),
    Message("assistant", "a1", <<"Ok">>, TRUE, FALSE, NoNum, NoNum) }

InitRealtime ==
  /\ events \in {<<>>} \cup Batches(RealtimePool)
  /\ transcript \in { <<>>, << [Item("user", "i1") EXCEPT !.content = <<"Hi">>] >> }
  /\ realtimeLogs \in Logs
  /\ Unrendered
  /\ Idle

SpecRealtime == InitRealtime /\ [][Next]_vars

\* ------------------------------------------------------------------------
\* Assistant messages of one identity, final and not, with and without
\* text of their own, among the token fragments of the identity
\* ------------------------------------------------------------------------
ResolvePool ==
  { Token("m1", <<"Hel">>, sq, NoNum) : sq \in 1..2 }
  \cup { Message("assistant", "m1", <<"Hello", "!">>, TRUE, FALSE, sq, NoNum) : sq \in 1..2 }
  \cup { Message("assistant", "m1", <<"Hi">>, FALSE, FALSE, sq, NoNum) : sq \in 1..2 }
  \cup { Token("m1", <<"lo">>, 2, NoNum),
         Message("assistant", "m1", Undef, TRUE, FALSE, 2, NoNum),
         Message("assistant", "m1", <<" ">>, TRUE, FALSE, 2, NoNum),
         [Message("assistant", "m1", Undef, FALSE, FALSE, 2, NoNum)
            EXCEPT !.content = <<"Yo">>],
         [Message("assistant", "m2", Undef, TRUE, FALSE, 1, NoNum)
            EXCEPT !.output = <<"Yo", " ">>],
         Message("assistant", "", <<"Ok">>, FALSE, FALSE, 1, NoNum) }

InitResolve == InitWith(ResolvePool)

SpecResolve == InitResolve /\ [][Next]_vars

\* ------------------------------------------------------------------------
\* A text submitted twice: the placeholder of the first submission is still
\* in the working set when the placeholder of the second one joins it
\* ------------------------------------------------------------------------
RetryPool ==
  { Optimistic("c1", <<"Hi">>, 1, T1),
    Optimistic("c2", <<"Hi">>, 2, T1 + 1),
    Optimistic("c2", <<"Yo">>, 2, T1 + 1),
    Optimistic("c3", <<"Hi">>, 2, T1 + RecencyWindowMs),
    Message("user", "s1", <<"Hi", " ">>, TRUE, FALSE, 2, T1),
    Message("assistant", "c2", <<"Ok">>, TRUE, FALSE, 2, T1) }

InitRetry == InitWith(RetryPool)

SpecRetry == InitRetry /\ [][Next]_vars

\* ------------------------------------------------------------------------
\* Scenarios and the active agent.  GET /api/scenarios/:id answers with the
\* agents of the scenario and, possibly, its default_root.
\* ------------------------------------------------------------------------
ScenarioIds == { "default", "retail" }

\* the answers of the server: data.agents (the names) and data.default_root
\* ("" when the answer has none)
Catalog ==
  [ id \in ScenarioIds |->
      IF id = "default"
      THEN [agents |-> <<"general", "sales", "support">>, default_root |-> ""]
      ELSE [agents |-> <<"concierge", "sales">>, default_root |-> "concierge"] ]

\* typeof data.default_root === 'string' ? data.default_root : nextAgents[0]?.id
rootOf(data) ==
  IF data.default_root # "" THEN data.default_root
  ELSE IF data.agents # <<>> THEN data.agents[1] ELSE ""

\* nextAgents.some((a) => a.id === prev)
someAgent(list, id) == \E k \in 1..Len(list) : list[k] = id

MaxTurnEvents == 1

\* the targets the handoff suggestions carry
HandoffTargets == { "Sales", "concierge" }

\* String.prototype.toLowerCase on the targets
toLowerCase(str) == IF str = "Sales" THEN "sales" ELSE str

\* onScenarioChange: setScenarioId(id); the effect starts the fetch of the
\* scenario and the answer of an earlier fetch is dropped (alive = false)
SwitchScenario ==
  /\ \E id \in ScenarioIds \ {scenarioId} : scenarioId' = id
  /\ scenarioPc' = "fetching"
  /\ UNCHANGED <<agents, activeAgentId>>
  /\ UNCHANGED <<events, transcript, realtimeLogs, chatMessages, streaming, origin,
                 pc, calls>>
  /\ UNCHANGED sendVars
  /\ UNCHANGED guardrailResults

\* the scenario effect, r.ok with an agents array: setAgents and
\* setActiveAgentId((prev) => ... ? prev : root || nextAgents[0]?.id)
AgentsLoaded ==
  /\ scenarioPc = "fetching"
  /\ agents' = Catalog[scenarioId].agents
  /\ activeAgentId' =
        IF someAgent(Catalog[scenarioId].agents, activeAgentId) THEN activeAgentId
        ELSE rootOf(Catalog[scenarioId])
  /\ scenarioPc' = "loaded"
  /\ UNCHANGED scenarioId
  /\ UNCHANGED <<events, transcript, realtimeLogs, chatMessages, streaming, origin,
                 pc, calls>>
  /\ UNCHANGED sendVars
  /\ UNCHANGED guardrailResults

\* the scenario effect, the fetch failed: catch {}
AgentsFailed ==
  /\ scenarioPc = "fetching"
  /\ scenarioPc' = "idle"
  /\ UNCHANGED <<scenarioId, agents, activeAgentId>>
  /\ UNCHANGED <<events, transcript, realtimeLogs, chatMessages, streaming, origin,
                 pc, calls>>
  /\ UNCHANGED sendVars
  /\ UNCHANGED guardrailResults

\* an action of the user on the agents leaves a pending fetch pending
afterUserAction == IF scenarioPc = "fetching" THEN "fetching" ELSE "idle"

\* applyHandoff: on r.ok setActiveAgentId(targetAgent.toLowerCase()); a
\* failed request is only logged
applyHandoff ==
  /\ \E targetAgent \in HandoffTargets, ok \in BOOLEAN :
        activeAgentId' = IF ok THEN toLowerCase(targetAgent) ELSE activeAgentId
  /\ scenarioPc' = afterUserAction
  /\ UNCHANGED <<scenarioId, agents>>
  /\ UNCHANGED <<events, transcript, realtimeLogs, chatMessages, streaming, origin,
                 pc, calls>>
  /\ UNCHANGED sendVars
  /\ UNCHANGED guardrailResults

\* AgentConfig and SessionConfig: setActiveAgentId of an agent of the list
SelectAgent ==
  /\ \E k \in 1..Len(agents) : activeAgentId' = agents[k]
  /\ scenarioPc' = afterUserAction
  /\ UNCHANGED <<scenarioId, agents>>
  /\ UNCHANGED <<events, transcript, realtimeLogs, chatMessages, streaming, origin,
                 pc, calls>>
  /\ UNCHANGED sendVars
  /\ UNCHANGED guardrailResults

\* the items GET /api/sdk/session/transcript answers with
TranscriptAnswers == { <<>>, << [Item("assistant", "i1") EXCEPT !.content = <<"Hi">>] >> }

\* loadTranscript: setTranscript(data.items || []), or setError on failure
loadTranscript ==
  /\ \E ok \in BOOLEAN, items \in TranscriptAnswers :
        IF ok THEN transcript' = items /\ error' = ""
        ELSE transcript' = transcript /\ error' = "http error"
  /\ UNCHANGED <<events, realtimeLogs, chatMessages, streaming, origin, pc, calls,
                 loading, inflight, server>>
  /\ UNCHANGED agentVars
  /\ UNCHANGED guardrailResults

\* the server records a handoff to another agent, once in the session
ServerHandoff ==
  /\ \A k \in 1..Len(events) : events[k].type # "handoff"
  /\ \A k \in 1..Len(server) : server[k].type # "handoff"
  /\ \E targetAgent \in HandoffTargets :
        server' = Append(server,
                     Handoff(targetAgent, "", maxSeqOf(events \o server) + 1, T1))
  /\ UNCHANGED <<events, transcript, realtimeLogs, chatMessages, streaming, origin,
                 pc, calls, loading, error, inflight>>
  /\ UNCHANGED agentVars
  /\ UNCHANGED guardrailResults

\* the page next to the agents: a message is sent while the session has fewer
\* than MaxTurnEvents events
NextAgents ==
  \/ SwitchScenario \/ AgentsLoaded \/ AgentsFailed \/ applyHandoff \/ SelectAgent
  \/ loadTranscript \/ ServerHandoff
  \/ (Len(events) + Len(server) < MaxTurnEvents /\ SendStart)
  \/ ServerRecord \/ Refresh \/ SendOk \/ SendFail

InitAgents ==
  /\ events = <<>>
  /\ transcript = <<>>
  /\ realtimeLogs = <<>>
  /\ Unrendered
  /\ Idle

SpecAgents == InitAgents /\ [][NextAgents]_vars

\* ------------------------------------------------------------------------
\* The moderation guardrail: execute calls runGuardrailClassifier, which
\* posts the agent output to /api/moderate and maps the answer.
\* ------------------------------------------------------------------------
MaxChecks == 2

AgentOutputs == { <<"Hi">>, <<"Yo">> }

\* what the POST to /api/moderate ends with: fetch rejects, the response is
\* not ok, its body is not JSON, or it is JSON with data.allowed as given
\* ("null" standing for a body that is null)
ModerationResponses ==
  { [kind |-> k, allowed |-> "absent"] : k \in {"network_error", "http_error", "bad_json"} }
  \cup { [kind |-> "json", allowed |-> a] :
           a \in {"true", "false", "absent", "'false'", "null"} }

NoOutput ==
  [moderationRationale |-> "", moderationCategory |-> "", testText |-> <<>>, error |-> ""]

\* { error: 'guardrail_failed' }
GuardrailFailed == [NoOutput EXCEPT !.error = "guardrail_failed"]

\* GuardrailOutputZod.parse(output): the object when the schema accepts it,
\* an exception otherwise
parse(output, accepts) ==
  IF accepts THEN [rejected |-> FALSE, value |-> output]
  ELSE [rejected |-> TRUE, value |-> NoOutput]

\* runGuardrailClassifier: the promise it returns, rejected or fulfilled
runGuardrailClassifier(message, response, accepts) ==
  IF response.kind # "json" THEN [rejected |-> TRUE, value |-> NoOutput]
  ELSE parse([NoOutput EXCEPT
                !.moderationRationale = "server-moderation",
                !.moderationCategory =
                   IF response.allowed = "false" THEN "OFFENSIVE" ELSE "NONE",
                !.testText = message], accepts)

\* the end of execute once the classifier has settled
settle(res) ==
  IF res.rejected
  THEN [settled |-> "fulfilled", tripwireTriggered |-> FALSE,
        outputInfo |-> GuardrailFailed]
  ELSE [settled |-> "fulfilled",
        tripwireTriggered |-> res.value.moderationCategory # "NONE",
        outputInfo |-> res.value]

\* mutant of execute: no catch, the failure of the classifier is the
\* failure of execute
execute_NoCatch(agentOutput, response, accepts) ==
  IF response.kind # "json" \/ ~accepts
  THEN [settled |-> "rejected", tripwireTriggered |-> FALSE, outputInfo |-> NoOutput]
  ELSE settle(runGuardrailClassifier(agentOutput, response, accepts))

\* createModerationGuardrail(companyName).execute({ agentOutput })
execute(agentOutput, response, accepts) ==
  settle(runGuardrailClassifier(agentOutput, response, accepts))

\* the guardrail is run on an output of the agent
Moderate ==
  /\ Len(guardrailResults) < MaxChecks
  /\ \E agentOutput \in AgentOutputs, response \in ModerationResponses,
        accepts \in BOOLEAN :
        guardrailResults' =
           Append(guardrailResults,
                  [response |-> response, accepts |-> accepts,
                   result |-> execute(agentOutput, response, accepts)])
  /\ UNCHANGED <<events, transcript, realtimeLogs, chatMessages, streaming, origin,
                 pc, calls>>
  /\ UNCHANGED sendVars
  /\ UNCHANGED agentVars

InitGuardrail ==
  /\ events = <<>>
  /\ transcript = <<>>
  /\ realtimeLogs = <<>>
  /\ Unrendered
  /\ Idle

SpecGuardrail == InitGuardrail /\ [][Moderate]_vars

\* ------------------------------------------------------------------------
\* Vocabulary of the properties
\* ------------------------------------------------------------------------
Rendered == pc = "rendered"

EventIdx == 1..Len(events)

MsgIdx == 1..Len(chatMessages)

isToolEvent(e) == e.type \in {"tool_call", "tool_result"}

\* message k was pushed for the event at batch index i
DerivedFrom(k, i) == origin[k] = i

EventDerived(k) == origin[k] > 0

Synthetic(k) == chatMessages[k].id.p = "tok"

\* the three-key order of the specification: a present key sorts before an
\* absent one, two absent keys tie
KeyLess(a, b) == isNumber(a) /\ (~isNumber(b) \/ a < b)

StableBefore(i, j) ==
  \/ KeyLess(events[i].seq, events[j].seq)
  \/ /\ events[i].seq = events[j].seq
     /\ \/ KeyLess(events[i].timestamp_ms, events[j].timestamp_ms)
        \/ events[i].timestamp_ms = events[j].timestamp_ms /\ i < j

PermutationsOf(n) == { f \in [1..n -> 1..n] : \A a, b \in 1..n : f[a] = f[b] => a = b }

Permuted(f) == [k \in EventIdx |-> events[f[k]]]

\* ------------------------------------------------------------------------
\* Tool events
\* ------------------------------------------------------------------------
\* C1: after rendering a non-empty batch, every tool_call and every
\* tool_result event has exactly one message of kind 'tool' pushed for it,
\* whose raw is the event itself.
C1_OneToolMessagePerToolEvent ==
  Rendered =>
    \A i \in EventIdx : isToolEvent(events[i]) =>
       Cardinality({ k \in MsgIdx :
          /\ DerivedFrom(k, i)
          /\ chatMessages[k].kind = "tool"
          /\ chatMessages[k].raw = events[i] }) = 1

\* the label the specification resolves for a tool event
ResolvedToolName(e) ==
  IF e.tool_name # "" THEN e.tool_name
  ELSE IF e.data_tool_name # "" THEN e.data_tool_name ELSE "tool"

\* C2: the message emitted for a tool_call or tool_result event has as
\* toolName the event's tool_name, else its data.tool_name, else 'tool'.
C2_ToolNameFallbackChain ==
  Rendered =>
    \A i \in EventIdx : isToolEvent(events[i]) =>
       \E k \in MsgIdx :
          DerivedFrom(k, i) /\ chatMessages[k].toolName = ResolvedToolName(events[i])

\* ------------------------------------------------------------------------
\* Ordering
\* ------------------------------------------------------------------------
\* C8: messages pushed for events appear in the three-key order of their
\* events (seq ascending with absent seq last, then timestamp_ms ascending
\* with absent timestamp last, then batch index), and every synthetic
\* still-streaming entry comes after all of them.
C8_OutputFollowsStableOrder ==
  Rendered =>
    \A k, l \in MsgIdx : k < l =>
       /\ (EventDerived(k) /\ EventDerived(l)) => StableBefore(origin[k], origin[l])
       /\ Synthetic(k) => ~EventDerived(l)

\* C8 witness: the sort moved a later event of the batch in front of an
\* earlier one, an event without seq was rendered, and a streaming entry
\* follows the event-derived messages.
C8_Witness ==
  /\ Rendered
  /\ \E k, l, m \in MsgIdx :
        /\ k < l /\ l < m
        /\ EventDerived(k) /\ EventDerived(l) /\ origin[k] > origin[l]
        /\ ~isNumber(events[origin[l]].seq)
        /\ Synthetic(m)

\* C9 as stated: every permutation of the batch renders the same list.
C9_AnyPermutationSameOutput ==
  Rendered =>
    \A f \in PermutationsOf(Len(events)) :
       buildChatMessages(Permuted(f), transcript, realtimeLogs, "sdk") = chatMessages

\* no two events of the batch tie on both seq and timestamp_ms
DistinctKeys ==
  \A i, j \in EventIdx :
     (i # j) => ~(events[i].seq = events[j].seq
                  /\ events[i].timestamp_ms = events[j].timestamp_ms)

\* C9 amended: when no two events of the batch have the same (seq,
\* timestamp_ms) pair (absent counting as a value), every permutation of
\* the batch renders the same list.
C9_PermutationSameOutputWhenKeysDistinct ==
  (Rendered /\ DistinctKeys) =>
    \A f \in PermutationsOf(Len(events)) :
       buildChatMessages(Permuted(f), transcript, realtimeLogs, "sdk") = chatMessages

\* C9 witness: a batch with distinct keys, given out of stable order, whose
\* events tie on seq and are told apart by timestamp_ms only, rendered as
\* at least two messages.
C9_Witness ==
  /\ Rendered /\ DistinctKeys
  /\ Len(chatMessages) >= 2
  /\ \E i, j \in EventIdx :
        i < j /\ StableBefore(j, i) /\ events[i].seq = events[j].seq
        /\ \E k, l \in MsgIdx : k < l /\ origin[k] = j /\ origin[l] = i

\* C10: rendering the batch put in stable order gives the same list as
\* rendering the batch itself.
C10_OrderingTwiceEqualsOnce ==
  Rendered =>
    buildChatMessages(eventsSorted(events), transcript, realtimeLogs, "sdk")
      = chatMessages

\* C10 witness: the batch is not in stable order, two of its events tie on
\* seq and timestamp_ms, and both were rendered.
C10_Witness ==
  /\ Rendered
  /\ eventsSorted(events) # events
  /\ \E i, j \in EventIdx :
        /\ i < j
        /\ events[i].seq = events[j].seq
        /\ events[i].timestamp_ms = events[j].timestamp_ms
        /\ events[i] # events[j]
        /\ \E k, l \in MsgIdx : origin[k] = i /\ origin[l] = j

\* ------------------------------------------------------------------------
\* Streaming
\* ------------------------------------------------------------------------
isTokenOf(e, mid) == e.type = "token" /\ e.message_id = mid

TokenIds == { events[i].message_id : i \in { j \in EventIdx :
                events[j].type = "token" /\ events[j].message_id # "" } }

\* a message event with final = true carries the identity
Terminated(mid) ==
  \E i \in EventIdx :
     events[i].type = "message" /\ events[i].message_id = mid /\ events[i].final

\* the position of event i of the batch in the three-key order
StableRank(i) == 1 + Cardinality({ j \in EventIdx : j # i /\ StableBefore(j, i) })

EventAtRank(r) == CHOOSE i \in EventIdx : StableRank(i) = r

\* the token texts of an identity, concatenated in the three-key order,
\* from rank r on
RECURSIVE AccumulatedFrom(_, _)
AccumulatedFrom(mid, r) ==
  IF r > Len(events) THEN <<>>
  ELSE LET e == events[EventAtRank(r)] IN
       (IF isTokenOf(e, mid) /\ isString(e.text) THEN e.text ELSE <<>>)
         \o AccumulatedFrom(mid, r + 1)

Accumulated(mid) == AccumulatedFrom(mid, 1)

StillStreaming(mid) == Accumulated(mid) # <<>> /\ ~Terminated(mid)

\* C6: an identity with non-empty accumulated token text and no final
\* message event has an assistant message whose text is its token texts
\* concatenated in stable order.
C6_StreamingTextNeverDropped ==
  Rendered =>
    \A mid \in TokenIds : StillStreaming(mid) =>
       \E k \in MsgIdx :
          /\ chatMessages[k].kind = "assistant"
          /\ chatMessages[k].text = Accumulated(mid)

\* C6 witness: two fragments of one identity arrive in the opposite of
\* their stable order, and the identity is rendered with the text in stable
\* order.
C6_Witness ==
  /\ Rendered
  /\ \E i, j \in EventIdx :
        /\ i < j /\ StableBefore(j, i)
        /\ events[i].type = "token" /\ events[j].type = "token"
        /\ events[i].message_id = events[j].message_id
        /\ events[i].text # <<>> /\ events[j].text # <<>>
        /\ events[i].text # events[j].text
        /\ StillStreaming(events[i].message_id)
        /\ \E k \in MsgIdx :
              chatMessages[k].text = events[j].text \o events[i].text

\* the assistant messages of the output that belong to the identity and
\* carry its accumulated text
CarriesAccumulated(mid) ==
  { k \in MsgIdx :
      /\ chatMessages[k].kind = "assistant"
      /\ chatMessages[k].source # "realtime"
      /\ chatMessages[k].raw.message_id = mid
      /\ chatMessages[k].text = Accumulated(mid) }

\* C7 as stated: a still-streaming identity has exactly one assistant
\* message carrying its accumulated text, whatever non-final events of the
\* identity the batch holds.
C7_ExactlyOneMessageWithAccumulatedText ==
  Rendered =>
    \A mid \in TokenIds : StillStreaming(mid) =>
       Cardinality(CarriesAccumulated(mid)) = 1

StreamingEntriesOf(mid) ==
  { k \in MsgIdx : Synthetic(k) /\ chatMessages[k].id.s = mid }

\* C7 amended: a still-streaming identity has exactly one synthetic
\* streaming entry (id tok:<message_id>), of kind assistant and carrying
\* its accumulated text.
C7_ExactlyOneStreamingEntry ==
  Rendered =>
    \A mid \in TokenIds : StillStreaming(mid) =>
       /\ Cardinality(StreamingEntriesOf(mid)) = 1
       /\ \A k \in StreamingEntriesOf(mid) :
             /\ chatMessages[k].kind = "assistant"
             /\ chatMessages[k].text = Accumulated(mid)

\* C7 witness: a non-final message event of a still-streaming identity is
\* rendered with the accumulated text, next to the one streaming entry.
C7_Witness ==
  /\ Rendered
  /\ \E mid \in TokenIds :
        /\ StillStreaming(mid)
        /\ Cardinality(StreamingEntriesOf(mid)) = 1
        /\ \E k \in CarriesAccumulated(mid) : EventDerived(k)
        /\ Cardinality({ i \in EventIdx :
              isTokenOf(events[i], mid) /\ events[i].text # <<>> }) >= 2

\* ------------------------------------------------------------------------
\* Optimistic placeholders
\* ------------------------------------------------------------------------
isUserMessage(e) == e.type = "message" /\ e.role = "user"

\* the placeholder of a user message, as sendMessage builds it
isPlaceholder(e) == isUserMessage(e) /\ e.optimistic /\ e.final

isConfirmedUser(e) == isUserMessage(e) /\ ~e.optimistic

UserEvents == { i \in EventIdx : isUserMessage(events[i]) }

\* the user messages of the output that were built from the events and
\* carry the text
UserMessagesWith(t) ==
  { k \in MsgIdx :
      /\ chatMessages[k].kind = "user"
      /\ chatMessages[k].source # "realtime"
      /\ chatMessages[k].text = t }

\* event i is a placeholder and event j its confirmation under another
\* message_id: a real user message with the same non-empty normalized text
Supersedes(j, i) ==
  /\ isPlaceholder(events[i])
  /\ isConfirmedUser(events[j])
  /\ events[i].message_id # events[j].message_id
  /\ normalizeText(events[i].text) # <<>>
  /\ normalizeText(events[j].text) = normalizeText(events[i].text)

\* C3 as stated: whenever the batch holds a placeholder and a confirmation
\* of it, the output has exactly one user message with their text, and it
\* is built from a non-optimistic event.
C3_ConfirmedReplacesOptimistic ==
  Rendered =>
    \A i, j \in EventIdx : Supersedes(j, i) =>
       /\ Cardinality(UserMessagesWith(normalizeText(events[i].text))) = 1
       /\ \A k \in UserMessagesWith(normalizeText(events[i].text)) :
             EventDerived(k) /\ isConfirmedUser(events[origin[k]])

\* the confirmation is rendered with its own text: it is final, or no token
\* event carries its message_id
OwnText(j) ==
  \/ events[j].final
  \/ \A t \in EventIdx : ~isTokenOf(events[t], events[j].message_id)

\* C3 amended: when the placeholder and its confirmation are the only user
\* message events of the batch and the confirmation is rendered with its
\* own text, the output built from the events has exactly one user message
\* with their text, the one built from the confirmation, whichever of the
\* two comes first.
C3_ConfirmedReplacesOptimisticWhenAlone ==
  Rendered =>
    \A i, j \in EventIdx :
       (Supersedes(j, i) /\ UserEvents = {i, j} /\ OwnText(j)) =>
          /\ Cardinality(UserMessagesWith(normalizeText(events[i].text))) = 1
          /\ \A k \in UserMessagesWith(normalizeText(events[i].text)) : DerivedFrom(k, j)

\* C3 witness: the placeholder sorts before its confirmation, whose text
\* equals the placeholder's only after normalization, and the confirmation
\* alone is rendered.
C3_Witness ==
  /\ Rendered
  /\ \E i, j \in EventIdx :
        /\ Supersedes(j, i) /\ UserEvents = {i, j} /\ OwnText(j)
        /\ StableBefore(i, j)
        /\ events[i].text # events[j].text
        /\ \E k \in MsgIdx : DerivedFrom(k, j)
        /\ ~\E k \in MsgIdx : DerivedFrom(k, i)

\* C4: an optimistic message event whose message_id is that of a real
\* message event of the batch has no message in the output, in either order
\* of the two.
C4_OptimisticWithConfirmedIdDropped ==
  Rendered =>
    \A i, j \in EventIdx :
       ( /\ events[i].type = "message" /\ events[i].optimistic
         /\ events[j].type = "message" /\ ~events[j].optimistic
         /\ events[i].message_id # ""
         /\ events[i].message_id = events[j].message_id ) =>
          ~\E k \in MsgIdx : DerivedFrom(k, i)

\* C4 witness: the optimistic event sorts before a real assistant message
\* with its message_id and another text; the real one is rendered.
C4_Witness ==
  /\ Rendered
  /\ \E i, j \in EventIdx :
        /\ events[i].type = "message" /\ events[i].optimistic
        /\ events[j].type = "message" /\ ~events[j].optimistic
        /\ events[j].role # "user"
        /\ events[i].message_id # ""
        /\ events[i].message_id = events[j].message_id
        /\ StableBefore(i, j)
        /\ \E k \in MsgIdx : DerivedFrom(k, j)

\* event i is the only user message event of the batch, a placeholder with
\* non-empty text whose message_id no real message event carries
LonePlaceholder(i) ==
  /\ isPlaceholder(events[i])
  /\ UserEvents = {i}
  /\ normalizeText(events[i].text) # <<>>
  /\ \A j \in EventIdx :
        (events[j].type = "message" /\ ~events[j].optimistic)
           => events[j].message_id # events[i].message_id

UserMessages ==
  { k \in MsgIdx : chatMessages[k].kind = "user" /\ chatMessages[k].source # "realtime" }

\* C5: when the only user message event of the batch is a placeholder with
\* non-empty text that nothing confirms, the output built from the events
\* has exactly one user message, built from the placeholder and carrying
\* its text.
C5_UnconfirmedOptimisticKept ==
  Rendered =>
    \A i \in EventIdx : LonePlaceholder(i) =>
       /\ Cardinality(UserMessages) = 1
       /\ \A k \in UserMessages :
             DerivedFrom(k, i) /\ chatMessages[k].text = normalizeText(events[i].text)

\* C5 witness: a lone placeholder is rendered among the messages of other
\* events of the batch.
C5_Witness ==
  /\ Rendered
  /\ Len(events) >= 2
  /\ \E i \in EventIdx :
        /\ LonePlaceholder(i)
        /\ \E k, l \in MsgIdx :
              DerivedFrom(k, i) /\ EventDerived(l) /\ ~DerivedFrom(l, i)

\* ------------------------------------------------------------------------
\* Duplicate user messages
\* ------------------------------------------------------------------------
WithinWindow(i, j) ==
  /\ isNumber(events[i].timestamp_ms) /\ isNumber(events[j].timestamp_ms)
  /\ events[i].timestamp_ms - events[j].timestamp_ms < RecencyWindowMs
  /\ events[j].timestamp_ms - events[i].timestamp_ms < RecencyWindowMs

\* events i and j are two real user messages with the same non-empty
\* normalized text under different message_ids, inside the recency window
EchoPair(i, j) ==
  /\ i # j
  /\ isConfirmedUser(events[i]) /\ isConfirmedUser(events[j])
  /\ events[i].message_id # events[j].message_id
  /\ normalizeText(events[i].text) # <<>>
  /\ normalizeText(events[i].text) = normalizeText(events[j].text)
  /\ WithinWindow(i, j)

\* C11: two real user message events with the same normalized text and
\* different message_ids inside the recency window give one user message:
\* at most one of the two is rendered.
C11_RealEchoesCollapsed ==
  Rendered =>
    \A i, j \in EventIdx : EchoPair(i, j) =>
       ~( (\E k \in MsgIdx : DerivedFrom(k, i)) /\ (\E l \in MsgIdx : DerivedFrom(l, j)) )

\* C12: no two user messages of the output were built from events that
\* carry the same message_id.
C12_OneUserMessagePerMessageId ==
  Rendered =>
    \A k, l \in MsgIdx :
       ( /\ k # l
         /\ EventDerived(k) /\ EventDerived(l)
         /\ chatMessages[k].kind = "user" /\ chatMessages[l].kind = "user"
         /\ events[origin[k]].message_id # "" ) =>
          events[origin[k]].message_id # events[origin[l]].message_id

\* C12 witness: two real user messages of different raw text carry one
\* message_id; the first in stable order is rendered, the second is not.
C12_Witness ==
  /\ Rendered
  /\ \E i, j \in EventIdx :
        /\ isConfirmedUser(events[i]) /\ isConfirmedUser(events[j])
        /\ events[i].message_id # ""
        /\ events[i].message_id = events[j].message_id
        /\ events[i].text # events[j].text
        /\ StableBefore(i, j)
        /\ \E k \in MsgIdx : DerivedFrom(k, i)
        /\ ~\E k \in MsgIdx : DerivedFrom(k, j)

\* ------------------------------------------------------------------------
\* Empty text
\* ------------------------------------------------------------------------
\* message k was built from a realtime log
FromRealtime(k) == chatMessages[k].source = "realtime"

\* message k was built from an item of the fallback transcript
FromTranscript(k) == Len(events) = 0 /\ ~FromRealtime(k)

\* the items of the transcript the fallback does not pass over
ShownItems ==
  SelectSeq(transcript,
            LAMBDA it : (IF it.type # "" THEN it.type ELSE it.role)
                           \notin {"function_call", "function_call_output"})

\* C13: every message of the output has non-empty text, whatever the
\* events, the fallback transcript items and the realtime logs.
C13_NoBlankMessage ==
  Rendered => \A k \in MsgIdx : chatMessages[k].text # <<>>

\* C13, amended: every message built from a non-empty events batch or from
\* a realtime log has non-empty text; with no events, every transcript item
\* the fallback does not pass over is emitted, in order, with extractText
\* of the item as its text, empty or not.
C13_NoBlankMessageOutsideFallback ==
  Rendered =>
    /\ \A k \in MsgIdx :
          (Len(events) > 0 \/ FromRealtime(k)) => chatMessages[k].text # <<>>
    /\ Len(events) = 0 =>
          /\ Len(ShownItems) <= Len(chatMessages)
          /\ \A k \in 1..Len(ShownItems) :
                /\ FromTranscript(k)
                /\ chatMessages[k].raw = ShownItems[k]
                /\ chatMessages[k].text = extractText(ShownItems[k])
          /\ \A k \in MsgIdx : k > Len(ShownItems) => FromRealtime(k)

\* C13 witness: a batch with a token identity that accumulated nothing and
\* is not terminated, next to events that are rendered: no entry appears
\* for the identity.
C13_Witness ==
  /\ Rendered
  /\ chatMessages # <<>>
  /\ \E i \in EventIdx :
        /\ events[i].type = "token" /\ events[i].message_id # ""
        /\ ~hasFinal(events, events[i].message_id)
        /\ \A j \in EventIdx :
              (events[j].type = "token" /\ events[j].message_id = events[i].message_id)
                 => orElse(events[j].text, <<>>) = <<>>
        /\ \A k \in MsgIdx : chatMessages[k].raw.message_id # events[i].message_id

\* event i is a message whose own text, token accumulation so far and
\* extractText result are all empty
AllPathsEmpty(i) ==
  /\ events[i].type = "message"
  /\ orElse(events[i].text, <<>>) = <<>>
  /\ \A j \in EventIdx :
        ( /\ events[j].type = "token"
          /\ events[i].message_id # ""
          /\ events[j].message_id = events[i].message_id
          /\ StableBefore(j, i) ) => orElse(events[j].text, <<>>) = <<>>
  /\ extractText(events[i]) = <<>>

\* C14: a message event whose own text, token accumulation for its
\* message_id and extractText result are all empty gives no message.
C14_EmptyMessageSuppressed ==
  Rendered =>
    \A i \in EventIdx : AllPathsEmpty(i) => ~\E k \in MsgIdx : DerivedFrom(k, i)

\* C14 witness: such an event sits in a batch next to a message event that
\* is rendered.
C14_Witness ==
  /\ Rendered
  /\ \E i, j \in EventIdx :
        /\ AllPathsEmpty(i)
        /\ events[j].type = "message"
        /\ \E k \in MsgIdx : DerivedFrom(k, j)

\* C16: extractText gives the normalized result of the first strategy, in
\* the order content, text, output, output_text, input_text, arguments,
\* response.output_text, response.text, items, that yields a non-empty
\* string, and '' when none does.
C16_FirstNonEmptyStrategyWins ==
  LET yields(item) ==
        << IF isString(item.content) THEN normalizeText(item.content)
           ELSE IF item.content_parts.isArray
                THEN normalizeText(joinLines(contentTextParts(item.content_parts.elems)))
                ELSE <<>>,
           IF isString(item.text) THEN normalizeText(item.text) ELSE <<>>,
           IF isString(item.output) THEN normalizeText(item.output) ELSE <<>>,
           IF item.output_text.isArray
             THEN normalizeText(joinLines(item.output_text.elems)) ELSE <<>>,
           IF item.input_text.isArray
             THEN normalizeText(joinLines(item.input_text.elems)) ELSE <<>>,
           IF isString(item.arguments) THEN normalizeText(item.arguments) ELSE <<>>,
           IF item.response_output_text.isArray
             THEN normalizeText(joinLines(item.response_output_text.elems)) ELSE <<>>,
           IF isString(item.response_text) THEN normalizeText(item.response_text)
             ELSE <<>>,
           IF item.items.isArray
             THEN normalizeText(joinLines(itemsTextParts(item.items.elems)))
             ELSE <<>> >>
      firstNonEmpty(ys) ==
        IF \A n \in 1..Len(ys) : ys[n] = <<>> THEN <<>>
        ELSE ys[CHOOSE n \in 1..Len(ys) :
                  ys[n] # <<>> /\ \A m \in 1..(n - 1) : ys[m] = <<>>]
  IN  Rendered =>
        \A k \in MsgIdx :
           FromTranscript(k) =>
              chatMessages[k].text = firstNonEmpty(yields(chatMessages[k].raw))

\* ------------------------------------------------------------------------
\* Normalized text
\* ------------------------------------------------------------------------
\* C17: the normalized text has no CR, every line has its whitespace runs
\* collapsed to one space and is trimmed, no three consecutive newlines
\* remain, the whole is trimmed, the non-whitespace characters are kept in
\* order, and "a   b\r\n\r\n\r\nc" becomes "a b\n\nc".
C17_NormalizedTextForm ==
  Rendered =>
    LET str == transcript[1].content
        t   == chatMessages[1].text
        N   == Len(t)
    IN  /\ Len(chatMessages) = 1
        /\ \A k \in 1..N : t[k] \notin {"\r", "\t"}
        /\ \A k \in 1..N :
              t[k] = " " => /\ 1 < k /\ k < N
                            /\ ~isSpace(t[k - 1]) /\ ~isSpace(t[k + 1])
        /\ \A k \in 1..(N - 2) : ~(t[k] = "\n" /\ t[k + 1] = "\n" /\ t[k + 2] = "\n")
        /\ N > 0 => ~isSpace(t[1]) /\ ~isSpace(t[N])
        /\ SelectSeq(t, LAMBDA c : ~isSpace(c)) = SelectSeq(str, LAMBDA c : ~isSpace(c))
        /\ str = SampleText => t = <<"a", " ", "b", "\n", "\n", "c">>

\* C17 witness: the sample text has been normalized.
C17_Witness ==
  /\ Rendered
  /\ transcript[1].content = SampleText
  /\ chatMessages[1].text = <<"a", " ", "b", "\n", "\n", "c">>

\* ------------------------------------------------------------------------
\* Exceptions
\* ------------------------------------------------------------------------
\* C15: no malformed or partially populated event makes buildChatMessages
\* throw: the render of any batch completes.
C15_NeverThrows == pc # "crashed"

\* ------------------------------------------------------------------------
\* computeStreaming
\* ------------------------------------------------------------------------
\* the synthetic streaming entry of an identity is in the output
HasStreamingEntry(mid) ==
  \E k \in MsgIdx : Synthetic(k) /\ chatMessages[k].raw.message_id = mid

\* C18: computeStreaming is true exactly when some identity has a token
\* event and no final message event, and an identity has a synthetic
\* streaming entry exactly when it is such an identity and its accumulated
\* text is not empty.
C18_StreamingAgreesWithTerminal ==
  Rendered =>
    /\ streaming = (\E mid \in TokenIds : ~Terminated(mid))
    /\ \A mid \in TokenIds :
          HasStreamingEntry(mid) = (~Terminated(mid) /\ Accumulated(mid) # <<>>)
    /\ (\E k \in MsgIdx : Synthetic(k)) => streaming

\* C18 witness: an identity with tokens has a message event that is not
\* final, next to a final message of another identity; streaming is true
\* and the identity has its streaming entry.
C18_Witness ==
  /\ Rendered
  /\ streaming
  /\ \E mid \in TokenIds :
        /\ ~Terminated(mid) /\ HasStreamingEntry(mid)
        /\ \E i, j \in EventIdx :
              /\ events[i].type = "message" /\ events[i].message_id = mid
              /\ events[j].type = "message" /\ events[j].final
              /\ events[j].message_id # mid

Settled == inflight = "" /\ ~loading /\ server = <<>>

\* event i of the working set is a placeholder that the transcript built
\* from the working set shows
ShownPlaceholder(i) ==
  /\ isPlaceholder(events[i])
  /\ LET st == assemble(events, transcript, realtimeLogs, "sdk") IN
       \E k \in 1..Len(st.msgs) : st.origin[k] = i

\* C20: whatever the outcome of the request, once it is over and the
\* server's events are fetched no placeholder is left as a transcript
\* entry: each has been removed or superseded.
C20_NoLastingPlaceholder ==
  Settled => \A i \in EventIdx : ~ShownPlaceholder(i)

\* ------------------------------------------------------------------------
\* Handoffs
\* ------------------------------------------------------------------------
\* C21: every handoff event of a batch gives exactly one message, of kind
\* system and with non-empty text, even without agent_id and reason.
C21_OneSystemMessagePerHandoff ==
  Rendered =>
    \A i \in EventIdx :
       events[i].type = "handoff" =>
          /\ Cardinality({ k \in MsgIdx : DerivedFrom(k, i) }) = 1
          /\ \A k \in MsgIdx :
                DerivedFrom(k, i) =>
                   /\ chatMessages[k].kind = "system"
                   /\ chatMessages[k].role = "system"
                   /\ chatMessages[k].text # <<>>

\* C21 witness: a handoff with neither agent_id nor reason has its message,
\* next to a second handoff.
C21_Witness ==
  /\ Rendered
  /\ \E i, j \in EventIdx :
        /\ i # j
        /\ events[i].type = "handoff" /\ events[j].type = "handoff"
        /\ events[i].agent_id = "" /\ events[i].reason = ""
        /\ \E k \in MsgIdx : DerivedFrom(k, i) /\ chatMessages[k].kind = "system"

\* ------------------------------------------------------------------------
\* Realtime logs
\* ------------------------------------------------------------------------
\* the realtime logs that carry text: kind 'text', a role and content
TextLogs ==
  SelectSeq(realtimeLogs,
            LAMBDA l : /\ l.kind = "text" /\ l.role # ""
                       /\ isString(l.content) /\ l.content # <<>>)

\* C22: the realtime logs of kind 'text' with role and content give, one
\* each and in input order, the last messages of the output, tagged
\* 'realtime'; no other message carries the tag, and no dedupe rule removes
\* one whose text an event-derived message has.
C22_RealtimeLogsAppendedInOrder ==
  Rendered =>
    LET n == Len(TextLogs)
        M == Len(chatMessages)
    IN  /\ n <= M
        /\ \A j \in 1..n :
              /\ chatMessages[M - n + j].source = "realtime"
              /\ chatMessages[M - n + j].raw = TextLogs[j]
              /\ chatMessages[M - n + j].text = TextLogs[j].content
              /\ chatMessages[M - n + j].role = TextLogs[j].role
        /\ \A k \in 1..(M - n) : chatMessages[k].source # "realtime"

\* C22 witness: two logs with the text of a rendered user event are the
\* last two messages.
C22_Witness ==
  /\ Rendered
  /\ Len(TextLogs) = 2
  /\ TextLogs[1].id # TextLogs[2].id
  /\ \E k \in MsgIdx :
        /\ EventDerived(k) /\ chatMessages[k].kind = "user"
        /\ chatMessages[k].text = TextLogs[1].content
        /\ chatMessages[k].text = TextLogs[2].content
  /\ chatMessages[Len(chatMessages)].raw = TextLogs[2]

\* ------------------------------------------------------------------------
\* Transcript fallback
\* ------------------------------------------------------------------------
\* C23: when the batch holds an event, no transcript item gives a message:
\* every message comes from an event, a token accumulation or a realtime
\* log.
C23_TranscriptOnlyWithoutEvents ==
  (Rendered /\ Len(events) > 0) =>
     \A k \in MsgIdx : EventDerived(k) \/ Synthetic(k) \/ FromRealtime(k)

\* C23 witness: events and a transcript item are both present and the
\* events gave messages.
C23_Witness ==
  /\ Rendered
  /\ Len(events) > 0
  /\ transcript # <<>>
  /\ \E k \in MsgIdx : EventDerived(k)

\* ------------------------------------------------------------------------
\* C24: after a switch of scenario, once the agents of the scenario are
\* loaded, the agent list is the list of the new scenario and the active
\* agent is its default root, whatever agent was active before.
\* ------------------------------------------------------------------------
\* the scenario effect has just applied the answer for a scenario the user
\* switched to
SwitchedAndLoaded == scenarioPc = "loaded" /\ scenarioId # "default"

C24_ActiveAgentIsDefaultRootAfterSwitch ==
  SwitchedAndLoaded =>
     /\ agents = Catalog[scenarioId].agents
     /\ activeAgentId = rootOf(Catalog[scenarioId])

\* the part of C24 about the list
C24_AgentListIsScenarioList ==
  SwitchedAndLoaded => agents = Catalog[scenarioId].agents

RECURSIVE AccumulatedUpTo(_, _)
AccumulatedUpTo(mid, r) ==
  IF r = 0 THEN <<>>
  ELSE LET e == events[EventAtRank(r)] IN
       AccumulatedUpTo(mid, r - 1)
         \o (IF isTokenOf(e, mid) /\ isString(e.text) THEN e.text ELSE <<>>)

AccumulatedBefore(i) ==
  IF events[i].message_id = "" THEN <<>>
  ELSE AccumulatedUpTo(events[i].message_id, StableRank(i) - 1)

Present(t) == t # Undef /\ t # <<>>

FirstPresent(cs) ==
  IF \E k \in 1..Len(cs) : Present(cs[k])
  THEN cs[CHOOSE k \in 1..Len(cs) :
            Present(cs[k]) /\ \A j \in 1..(k - 1) : ~Present(cs[j])]
  ELSE <<>>

ResolvedText(i) ==
  normalizeText(FirstPresent(<< IF events[i].final THEN events[i].text ELSE <<>>,
                                AccumulatedBefore(i),
                                events[i].text,
                                extractText(events[i]) >>))

C26_TextResolutionOrder ==
  Rendered =>
    \A i \in EventIdx : events[i].type = "message" =>
       /\ \A k \in MsgIdx : DerivedFrom(k, i) => chatMessages[k].text = ResolvedText(i)
       /\ (events[i].role # "user" /\ ResolvedText(i) # <<>>) =>
             \E k \in MsgIdx : DerivedFrom(k, i)

\* C26 witness: after a token fragment, a final message is rendered with its
\* own text and a message that is not final, with a text of its own, is
\* rendered with the accumulation.
C26_Witness ==
  /\ Rendered
  /\ \E i, j \in EventIdx, k, l \in MsgIdx :
        /\ events[i].type = "message" /\ events[i].final
        /\ AccumulatedBefore(i) # <<>>
        /\ DerivedFrom(k, i) /\ chatMessages[k].text = events[i].text
        /\ events[j].type = "message" /\ ~events[j].final /\ Present(events[j].text)
        /\ AccumulatedBefore(j) # <<>>
        /\ DerivedFrom(l, j) /\ chatMessages[l].text = AccumulatedBefore(j)

\* ------------------------------------------------------------------------
\* C27: an optimistic user message event with non-empty text is left out of
\* the output only if the batch holds a real message event with its
\* message_id or a real user message event with its normalized text; an
\* earlier optimistic event alone never makes a later one disappear.
\* ------------------------------------------------------------------------
\* a real event of the batch accounts for the omission of placeholder i
ConfirmedInBatch(i) ==
  \E j \in EventIdx :
     /\ events[j].type = "message" /\ ~events[j].optimistic
     /\ \/ events[i].message_id # "" /\ events[j].message_id = events[i].message_id
        \/ /\ events[j].role = "user" /\ isString(events[j].text)
           /\ normalizeText(events[j].text) = normalizeText(events[i].text)

\* no other event of the batch carries the message_id of event i
OwnId(i) ==
  \A j \in EventIdx \ {i} : events[j].message_id # events[i].message_id

\* the placeholders in question are those of distinct submissions, each
\* under its own client id
C27_OptimisticDroppedOnlyForRealMessage ==
  Rendered =>
    \A i \in EventIdx :
       ( /\ isPlaceholder(events[i]) /\ OwnId(i)
         /\ ~\E k \in MsgIdx : DerivedFrom(k, i) ) =>
          ConfirmedInBatch(i)

\* ------------------------------------------------------------------------
\* C28: while a send is in flight, from the start of sendMessage until its
\* request settles, no step issues another request or inserts another
\* placeholder: at most one send is in flight at any time.
\* ------------------------------------------------------------------------
InFlight == inflight # ""

\* the message_ids of the placeholders of a working set
PlaceholderIds(evs) ==
  { evs[k].message_id : k \in { n \in 1..Len(evs) : evs[n].optimistic } }

C28_AtMostOneSendInFlight ==
  [][InFlight =>
        /\ loading
        /\ inflight' = inflight \/ inflight' = ""
        /\ PlaceholderIds(events') \subseteq PlaceholderIds(events)]_vars

\* C28 witness: a request is in flight, its placeholder is in the working
\* set, and the session has room for the placeholder of another message.
C28_Witness ==
  /\ InFlight
  /\ loading
  /\ \E k \in 1..Len(events) : isPlaceholderOf(events[k], inflight)
  /\ Len(events) + Len(server) < MaxEvents

\* ------------------------------------------------------------------------
\* C29: execute of the moderation guardrail never rejects; when the
\* classifier fails (response not ok, network error, a body or an object
\* that does not parse) it resolves with tripwireTriggered = false and
\* outputInfo = {error: 'guardrail_failed'}; otherwise tripwireTriggered is
\* true exactly when the moderation response has allowed === false.
\* ------------------------------------------------------------------------
ClassifierFailed(c) == c.response.kind # "json" \/ ~c.accepts

C29_GuardrailNeverRejects ==
  \A n \in 1..Len(guardrailResults) :
     LET c == guardrailResults[n] IN
     /\ c.result.settled = "fulfilled"
     /\ ClassifierFailed(c) =>
           /\ c.result.tripwireTriggered = FALSE
           /\ c.result.outputInfo.error = "guardrail_failed"
     /\ ~ClassifierFailed(c) =>
           /\ c.result.tripwireTriggered = (c.response.allowed = "false")
           /\ c.result.outputInfo.error = ""

\* C29 witness: one call whose classifier failed and one whose answer had
\* allowed === false and tripped the wire.
C29_Witness ==
  \E m, n \in 1..Len(guardrailResults) :
     /\ ClassifierFailed(guardrailResults[m])
     /\ guardrailResults[m].result.outputInfo = GuardrailFailed
     /\ ~ClassifierFailed(guardrailResults[n])
     /\ guardrailResults[n].result.tripwireTriggered

\* ------------------------------------------------------------------------
\* C30: the ids of the messages of the output are pairwise distinct, for
\* any batch of events and realtime logs.
\* ------------------------------------------------------------------------
\* no two events of the batch carry the same seq
DistinctSeqs ==
  \A i, j \in EventIdx :
     (i # j /\ isNumber(events[i].seq)) => events[i].seq # events[j].seq

\* the batches in question are those whose events differ in seq wherever
\* they have one
C30_IdsPairwiseDistinct ==
  (Rendered /\ DistinctSeqs) =>
     \A k, l \in MsgIdx : k # l => chatMessages[k].id # chatMessages[l].id

====
